---------------------------- MODULE Spec2Model ----------------------------
(***************************************************************************)
(* A model of the decision logic of mtg-art-downloader (src/core.py and    *)
(* src/card.py): the face disambiguator get_card_face, the reference       *)
(* resolvers get_mtgp_code / get_mtgp_code_pmo, the set mapper             *)
(* Card.mtgp_set, the classifier get_card_class and the per-face download  *)
(* sequence of Card.download / MDFC.download.                              *)
(*                                                                         *)
(* Python values are modelled as follows.  None is the empty sequence and  *)
(* a present value x is <<x>>.  A string that the code compares character  *)
(* by character (an image code) is a sequence of characters, a character   *)
(* being a natural number; lexicographic order is computed on them.  A     *)
(* call that can raise returns a record [exc, val]: exc = "" means the     *)
(* call returned val.                                                      *)
(***************************************************************************)
EXTENDS Integers, Sequences, FiniteSets, TLC

(***************************************************************************)
(* Bounds of the model.                                                    *)
(***************************************************************************)
\* Largest number of scraped image candidates on one card page.
MaxCands == 3

(***************************************************************************)
(* Generic helpers.                                                        *)
(***************************************************************************)
None == <<>>

Some(x) == <<x>>

\* A call that returned v.
Ret(v) == [exc |-> "", val |-> v]

\* A call that raised the exception e.
Raise(e) == [exc |-> e, val |-> None]

\* All sequences over S of length 0..n.
SeqsUpTo(S, n) == UNION {[1..k -> S] : k \in 0..n}

\* Python's comparison of two strings: a < b, character by character.
RECURSIVE LexLess(_, _)
LexLess(a, b) ==
  IF Len(b) = 0 THEN FALSE
  ELSE IF Len(a) = 0 THEN TRUE
  ELSE IF Head(a) < Head(b) THEN TRUE
  ELSE IF Head(a) > Head(b) THEN FALSE
  ELSE LexLess(Tail(a), Tail(b))

\* Insert x into the sorted sequence s after every element not greater than it.
RECURSIVE InsertSorted(_, _)
InsertSorted(x, s) ==
  IF Len(s) = 0 THEN <<x>>
  ELSE IF LexLess(x, Head(s)) THEN <<x>> \o s
  ELSE <<Head(s)>> \o InsertSorted(x, Tail(s))

\* sorted(arr) / arr.sort() on a list of strings.
RECURSIVE Sorted(_)
Sorted(arr) ==
  IF Len(arr) = 0 THEN <<>>
  ELSE InsertSorted(arr[Len(arr)], Sorted(SubSeq(arr, 1, Len(arr) - 1)))

(***************************************************************************)
(* Scraped image entries (core.py, get_card_face).                         *)
(* An entry is an <img> tag; its "src" is a path dir/file.  The directory  *)
(* is a sequence of path segments, the file name a sequence of characters  *)
(* ending with the extension token Ext (".jpg").                           *)
(***************************************************************************)
\* The characters an image code is made of.
Alphabet == {0, 1}

\* The character that stands for the text ".jpg" inside a file name
\* (no image code contains it).
Ext == 46

\* Lengths of the image codes: shorter than 3, exactly 3 (numeric-index
\* codes such as "050") and longer than 3 (suffix codes such as "050b").
CodeLens == {1, 3, 4}

\* The codes of the images of one card page share their leading characters
\* (the card's number): "050", "051", "050b", ...
Codes ==
  {c \in UNION {[1..n -> Alphabet] : n \in CodeLens} :
     /\ Len(c) >= 3 => c[1] = 0
     /\ Len(c) >= 4 => c[2] = 0}

\* The directories a scraped image can sit in: thumbnails and full art.
Dirs == {<<"pics", "art_th", "set">>, <<"pics", "art", "set">>}

\* The <img> entry for the image `code` in directory `dir`.
Entry(dir, code) == [src |-> [dir |-> dir, file |-> code \o <<Ext>>]]

\* os.path.basename(e["src"]).replace(".jpg", "")
ImageCode(src) == SelectSeq(src.file, LAMBDA ch : ch # Ext)

\* f"https://mtgpics.com/{os.path.dirname(src)}".replace("art_th", "art")
ImageDir(src) ==
  <<"https://mtgpics.com">> \o
  [i \in 1..Len(src.dir) |-> IF src.dir[i] = "art_th" THEN "art" ELSE src.dir[i]]

\* f"{path}/{code}.jpg"
ImageUrl(path, code) == [dir |-> path, file |-> code \o <<Ext>>]

\* f"{path}/{lst[k]}.jpg", where lst[k] raises IndexError past the end
\* (k is the 1-based position).
ImageAt(path, lst, k) ==
  IF k <= Len(lst) THEN Ret(Some(ImageUrl(path, lst[k])))
  ELSE Raise("IndexError")

\* A variant of get_card_face that takes two candidates in page order.
GetCardFaceUnsorted(entries, back) ==
  IF Len(entries) = 0 THEN Ret(None)
  ELSE LET path == ImageDir(entries[1].src)
           arr == [i \in 1..Len(entries) |-> ImageCode(entries[i].src)]
       IN IF Len(arr) = 1
          THEN (IF back THEN Ret(None) ELSE ImageAt(path, arr, 1))
          ELSE IF Len(arr) = 2
          THEN (IF back THEN ImageAt(path, arr, 2) ELSE ImageAt(path, arr, 1))
          ELSE LET img_i == SelectSeq(arr, LAMBDA c : Len(c) = 3)
                   img_s == SelectSeq(arr, LAMBDA c : Len(c) > 3)
               IN IF Len(img_i) > 1
                  THEN ImageAt(path, img_i, IF back THEN 2 ELSE 1)
                  ELSE IF Len(img_s) > 1
                  THEN ImageAt(path, img_s, IF back THEN 2 ELSE 1)
                  ELSE IF back THEN ImageAt(path, img_i, 1)
                  ELSE ImageAt(path, img_s, 1)

\* core.get_card_face(entries, back)
GetCardFace(entries, back) ==
  IF Len(entries) = 0 THEN Ret(None)
  ELSE LET path == ImageDir(entries[1].src)
           arr == [i \in 1..Len(entries) |-> ImageCode(entries[i].src)]
       IN IF Len(arr) = 1
          THEN (IF back THEN Ret(None) ELSE ImageAt(path, arr, 1))
          ELSE IF Len(arr) = 2
          THEN (IF back THEN ImageAt(path, Sorted(arr), 2)
                ELSE ImageAt(path, Sorted(arr), 1))
          ELSE \* len(arr) > 2: split the sorted codes by length
               LET srt == Sorted(arr)
                   img_i == SelectSeq(srt, LAMBDA c : Len(c) = 3)
                   img_s == SelectSeq(srt, LAMBDA c : Len(c) > 3)
               IN IF Len(img_i) > 1
                  THEN ImageAt(path, img_i, IF back THEN 2 ELSE 1)
                  ELSE IF Len(img_s) > 1
                  THEN ImageAt(path, img_s, IF back THEN 2 ELSE 1)
                  ELSE \* "Or just go in order"
                       IF back THEN ImageAt(path, img_i, 1)
                       ELSE ImageAt(path, img_s, 1)

VARIABLES
  \* get_card_face under test: its arguments, and its outcome once called
  entries,      \* the scraped <img> entries
  back,         \* the face asked for
  faceOut       \* None before the call, <<[exc, val]>> after it

faceVars == <<entries, back, faceOut>>

(***************************************************************************)
(* get_card_face applied to every candidate list within the bounds.        *)
(***************************************************************************)
\* The candidate lists: any codes in any order; the first candidate's
\* directory is either one, the others sit in the thumbnail directory.
CandidateLists ==
  {[i \in 1..Len(cs) |-> Entry(IF i = 1 THEN d ELSE <<"pics", "art_th", "set">>, cs[i])] :
     cs \in SeqsUpTo(Codes, MaxCands), d \in Dirs}

FaceIdle ==
  /\ entries = <<>>
  /\ back = FALSE
  /\ faceOut = None

FaceInit ==
  /\ entries \in CandidateLists
  /\ back = FALSE
  /\ faceOut = None

\* One call get_card_face(entries, b).
CallGetCardFace ==
  /\ faceOut = None
  /\ \E b \in BOOLEAN :
       /\ back' = b
       /\ faceOut' = Some(GetCardFace(entries, b))
  /\ UNCHANGED entries


(***************************************************************************)
(* Set checklist pages (core.py, get_mtgp_code and get_mtgp_code_pmo).     *)
(* A text is a sequence of words.  A checklist row is one of the <div>     *)
(* rows of the site's checklist table: it carries the cells the code       *)
(* reads, the collector number (cols[0]), the name cell with its link      *)
(* (cols[2]) and the artist (cols[6]).  A page that was not fetched is     *)
(* None.                                                                   *)
(***************************************************************************)
\* Largest number of rows of a checklist page.
MaxRows == 3

\* Python's `name in text` on strings: name occurs in text.
Contains(text, name) ==
  \E i \in 1..(Len(text) + 1) :
    /\ i + Len(name) - 1 <= Len(text)
    /\ SubSeq(text, i, i + Len(name) - 1) = name

\* href.replace("card?ref=", "")
RefCode(href) == SelectSeq(href, LAMBDA w : w # "card?ref=")

\* The link of the row at position i of a checklist.
RowHref(i) == <<"card?ref=", ToString(i)>>

\* First loop of get_mtgp_code: the first row with this collector number
\* whose name cell contains the name.
RECURSIVE ScanNumberAndName(_, _, _)
ScanNumberAndName(rows, num, name) ==
  IF Len(rows) = 0 THEN None
  ELSE IF Head(rows).num = num /\ Contains(Head(rows).text, name)
  THEN Some(RefCode(Head(rows).href))
  ELSE ScanNumberAndName(Tail(rows), num, name)

\* Second loop of get_mtgp_code: the first row whose name cell contains the
\* name.
RECURSIVE ScanName(_, _)
ScanName(rows, name) ==
  IF Len(rows) = 0 THEN None
  ELSE IF Contains(Head(rows).text, name)
  THEN Some(RefCode(Head(rows).href))
  ELSE ScanName(Tail(rows), name)

\* A variant of get_mtgp_code with the name loop only.
GetMtgpCodeOnePass(page1, page2, num, name) ==
  IF page1 = None \/ page2 = None THEN None
  ELSE IF page1[1].setlink = None THEN None
  ELSE ScanName(page2[1], name)

\* core.get_mtgp_code(set_code, num, name).  page1 is what get_mtgp_page
\* returns for the card page {set_code}001 and page2 what it returns for
\* the checklist that page links to.  BeautifulSoup(None) raises TypeError
\* and a page without the set link AttributeError; both are caught and the
\* function returns None.
GetMtgpCode(page1, page2, num, name) ==
  IF page1 = None THEN None
  ELSE IF page1[1].setlink = None THEN None
  ELSE IF page2 = None THEN None
  ELSE LET rows == page2[1]
           both == ScanNumberAndName(rows, num, name)
       IN IF both # None THEN both
          ELSE ScanName(rows, name)

VARIABLES
  \* get_mtgp_code under test
  setPage,      \* the page of card {set}001: None, or <<[setlink]>>
  checklist,    \* the checklist page: None, or <<rows>>
  argNum,       \* the collector number looked for
  argName,      \* the card name looked for
  codeOut       \* None before the call, <<result>> after it

codeVars == <<setPage, checklist, argNum, argName, codeOut>>

\* Collector numbers and name-cell texts of the rows, and the names looked
\* for.
Numbers == {"1", "2"}

Texts == {<<"Fire">>, <<"Ice">>, <<"Fire", "Ice">>, <<"Ice", "Fire">>}

CardNames == {<<"Fire">>, <<"Fire", "Ice">>}

\* The checklists of at most MaxRows rows.
Checklists ==
  {[i \in 1..Len(rs) |-> [num |-> rs[i][1], text |-> rs[i][2], href |-> RowHref(i)]] :
     rs \in SeqsUpTo(Numbers \X Texts, MaxRows)}

SetPages == {None, Some([setlink |-> None]), Some([setlink |-> Some("set?set=1")])}

CodeIdle ==
  /\ setPage = None
  /\ checklist = None
  /\ argNum = ""
  /\ argName = <<>>
  /\ codeOut = None

CodeInit ==
  /\ setPage \in SetPages
  /\ checklist \in {None} \cup {Some(rows) : rows \in Checklists}
  /\ argNum \in Numbers
  /\ argName \in CardNames
  /\ codeOut = None

\* One call get_mtgp_code(set_code, argNum, argName).
CallGetMtgpCode ==
  /\ codeOut = None
  /\ codeOut' = Some(GetMtgpCode(setPage, checklist, argNum, argName))
  /\ UNCHANGED <<setPage, checklist, argNum, argName>>


(***************************************************************************)
(* Promotional resolution (core.py, get_mtgp_code_pmo).                    *)
(* The similarity SequenceMatcher(...).ratio() of a row is a value of the  *)
(* row: a level 0..MaxScore, a higher level being a higher ratio.          *)
(***************************************************************************)
\* The highest similarity level of a row.
MaxScore == 2

\* str.lower() on one word.
LowerWord(w) ==
  CASE w = "Fire" -> "fire"
    [] w = "FIRE" -> "fire"
    [] w = "Ice" -> "ice"
    [] w = "Promo" -> "promo"
    [] OTHER -> w

\* str.lower() on a text.
Lower(text) == [i \in 1..Len(text) |-> LowerWord(text[i])]

\* unidecode() on a text: accented letters become ASCII letters.
Unidecode(text) ==
  [i \in 1..Len(text) |-> IF text[i] = "José" THEN "Jose" ELSE text[i]]

\* The checklist the promo kind selects (the `set=` number of its URL).
PromoSetId(promo) ==
  IF promo = "dci" THEN 18
  ELSE IF promo = "a22" THEN 375
  ELSE IF promo = "uni" THEN 201
  ELSE 72

\* The condition under which a row is appended to `matches`.
Qualifies(row, name, artist) ==
  /\ Contains(Unidecode(row.artist), artist)
  /\ Contains(Lower(row.text), Lower(name))

\* The entry appended to `matches` for a row.
MatchOf(row) == [code |-> RefCode(row.href), match |-> row.score]

\* A sort by descending score that puts a match before the matches of the
\* same score met earlier.
RECURSIVE SortedByMatchTiesLast(_)
SortedByMatchTiesLast(matches) ==
  IF Len(matches) = 0 THEN <<>>
  ELSE LET rest == SortedByMatchTiesLast(SubSeq(matches, 1, Len(matches) - 1))
           x == matches[Len(matches)]
           before == SelectSeq(rest, LAMBDA m : m.match > x.match)
           after == SelectSeq(rest, LAMBDA m : m.match <= x.match)
       IN before \o <<x>> \o after

\* sorted(matches, key=lambda i: i["match"], reverse=True): descending by
\* score; Python's sort is stable, also with reverse=True, so matches of
\* equal score keep their order.
RECURSIVE SortedByMatch(_)
SortedByMatch(matches) ==
  IF Len(matches) = 0 THEN <<>>
  ELSE LET rest == SortedByMatch(SubSeq(matches, 1, Len(matches) - 1))
           x == matches[Len(matches)]
           before == SelectSeq(rest, LAMBDA m : m.match >= x.match)
           after == SelectSeq(rest, LAMBDA m : m.match < x.match)
       IN before \o <<x>> \o after

\* The rows of the checklist that qualify, as matches, in row order.
RECURSIVE CollectMatches(_, _, _)
CollectMatches(rows, name, artist) ==
  IF Len(rows) = 0 THEN <<>>
  ELSE (IF Qualifies(Head(rows), name, artist) THEN <<MatchOf(Head(rows))>> ELSE <<>>)
       \o CollectMatches(Tail(rows), name, artist)

\* core.get_mtgp_code_pmo(name, artist, set_name, promo), page being what
\* get_mtgp_page returns for the promo checklist.  BeautifulSoup(None)
\* raises TypeError and sorted(...)[0] on no match IndexError; both are
\* caught and the function returns None.
GetMtgpCodePmo(page, name, artist) ==
  IF page = None THEN None
  ELSE LET matches == CollectMatches(page[1], name, artist)
           srt == SortedByMatch(matches)
       IN IF Len(srt) = 0 THEN None
          ELSE Some(srt[1].code)

VARIABLES
  \* get_mtgp_code_pmo under test
  pmoPage,      \* the promo checklist page: None, or <<rows>>
  pmoName,      \* the card name
  pmoArtist,    \* the card's artist
  pmoFetched,   \* the checklist that was fetched: None before the call
  pmoOut        \* None before the call, <<result>> after it

pmoVars == <<pmoPage, pmoName, pmoArtist, pmoFetched, pmoOut>>

PromoTexts == {<<"FIRE", "Promo">>, <<"Ice">>}

PromoArtists == {<<"José">>, <<"Anna">>}

PromoKinds == {"dci", "a22", "uni", "pmo"}

\* The promo checklists of at most MaxRows rows.
PromoChecklists ==
  {[i \in 1..Len(rs) |->
      [text |-> rs[i][1], artist |-> rs[i][2], score |-> rs[i][3], href |-> RowHref(i)]] :
     rs \in SeqsUpTo(PromoTexts \X PromoArtists \X (0..MaxScore), MaxRows)}

PmoIdle ==
  /\ pmoPage = None
  /\ pmoName = <<>>
  /\ pmoArtist = <<>>
  /\ pmoFetched = None
  /\ pmoOut = None

PmoInit ==
  /\ pmoPage \in {None} \cup {Some(rows) : rows \in PromoChecklists}
  /\ pmoName = <<"Fire">>
  /\ pmoArtist = <<"Jose">>
  /\ pmoFetched = None
  /\ pmoOut = None

\* One call get_mtgp_code_pmo(pmoName, pmoArtist, set_name, promo).
CallGetMtgpCodePmo ==
  /\ pmoOut = None
  /\ \E promo \in PromoKinds : pmoFetched' = Some(PromoSetId(promo))
  /\ pmoOut' = Some(GetMtgpCodePmo(pmoPage, pmoName, pmoArtist))
  /\ UNCHANGED <<pmoPage, pmoName, pmoArtist>>

(***************************************************************************)
(* Set mapping and reference code of a card (card.py, Card.mtgp_set and    *)
(* Card.mtgp_code).  Both are cached properties of the card object;        *)
(* mtgp_set sets the object's promo flag as a side effect.  The tables     *)
(* cfg.replace_sets and con.promo_sets are inputs.  The calls the card     *)
(* makes to the page fetcher and to the two resolvers are recorded in      *)
(* `calls`, in order, each with its argument and what it returned.         *)
(***************************************************************************)
\* Python's truth value of an Optional[str]: None and "" are false.
Truthy(v) == v # None /\ v[1] # <<>>

\* The set code after the override table: lines 132-134.
Overridden(cset, replace) ==
  IF cset \in DOMAIN replace THEN replace[cset] ELSE cset

\* A variant of mtgp_set that tests the Judge Gift rule before the Alchemy
\* rule.
MtgpSetJudgeFirst(cset, set_name, set_type, replace, promos, page) ==
  LET mtgp_set == Overridden(cset, replace)
  IN IF mtgp_set \in promos
     THEN [set |-> mtgp_set, promo |-> TRUE, probed |-> FALSE]
     ELSE IF Contains(set_name, <<"Judge", "Gift">>) \/ mtgp_set = "dci"
     THEN [set |-> "dci", promo |-> TRUE, probed |-> FALSE]
     ELSE IF Contains(set_name, <<"Alchemy">>)
     THEN [set |-> "a22", promo |-> TRUE, probed |-> FALSE]
     ELSE IF set_name \in {<<"Legacy", "Championship">>, <<"Vintage", "Championship">>}
     THEN [set |-> "uni", promo |-> TRUE, probed |-> FALSE]
     ELSE IF set_type \in {"funny", "promo"}
     THEN (IF page # None
           THEN [set |-> mtgp_set, promo |-> FALSE, probed |-> TRUE]
           ELSE [set |-> "pmo", promo |-> TRUE, probed |-> TRUE])
     ELSE [set |-> mtgp_set, promo |-> FALSE, probed |-> FALSE]

\* The body of Card.mtgp_set: the code it returns, whether it sets the
\* promo flag, and whether it fetched the page {mtgp_set}001, `page` being
\* what get_mtgp_page returns for it.
MtgpSet(cset, set_name, set_type, replace, promos, page) ==
  LET mtgp_set == Overridden(cset, replace)
  IN IF mtgp_set \in promos
     THEN [set |-> mtgp_set, promo |-> TRUE, probed |-> FALSE]
     ELSE IF Contains(set_name, <<"Alchemy">>)
     THEN [set |-> "a22", promo |-> TRUE, probed |-> FALSE]
     ELSE IF Contains(set_name, <<"Judge", "Gift">>) \/ mtgp_set = "dci"
     THEN [set |-> "dci", promo |-> TRUE, probed |-> FALSE]
     ELSE IF set_name \in {<<"Legacy", "Championship">>, <<"Vintage", "Championship">>}
     THEN [set |-> "uni", promo |-> TRUE, probed |-> FALSE]
     ELSE IF set_type \in {"funny", "promo"}
     THEN (IF page # None
           THEN [set |-> mtgp_set, promo |-> FALSE, probed |-> TRUE]
           ELSE [set |-> "pmo", promo |-> TRUE, probed |-> TRUE])
     ELSE [set |-> mtgp_set, promo |-> FALSE, probed |-> FALSE]

\* A variant of the promo test of mtgp_code that does not read the flag.
UsePromoAnySet(mtgp_set, promo) == mtgp_set # ""

\* `if self.mtgp_set and self.promo`: line 118.
UsePromo(mtgp_set, promo) == mtgp_set # "" /\ promo

\* self.set + self.number: line 127.
NaiveCode(cset, number) == <<cset, number>>

VARIABLES
  \* the card record and the configuration tables
  cSet,         \* c["set"], the canonical set code
  cSetName,     \* c["set_name"]
  cSetType,     \* c["set_type"]
  replaceSets,  \* cfg.replace_sets
  promoSets,    \* con.promo_sets
  \* the card object
  promo,        \* self._promo
  setCache,     \* the cached mtgp_set: None until first read
  refCache,     \* the cached mtgp_code: None until first read
  calls         \* the calls made so far: <<[fn, arg, out], ...>>

setVars ==
  <<cSet, cSetName, cSetType, replaceSets, promoSets, promo, setCache, refCache, calls>>

\* The collector number of the card under test.
CardNumber == "7"

SetCodes == {"abc", "pxx", "dci"}

SetNames ==
  { <<"Core">>, <<"Alchemy", "Horizons">>, <<"Judge", "Gift", "Cards">>,
    <<"Alchemy", "Judge", "Gift">>, <<"Legacy", "Championship">>,
    <<"Vintage", "Championship">>, <<"Legacy", "Championship", "Decks">> }

SetTypes == {"core", "funny", "promo"}

\* The empty table.
NoOverride == [x \in {} |-> ""]

ReplaceTables ==
  {NoOverride, [x \in {"abc"} |-> "pxx"], [x \in {"abc"} |-> "dci"], [x \in {"pxx"} |-> "abc"]}

PromoTables == {{}, {"pxx"}, {"pxx", "dci"}}

\* What a page fetch returns: None, or the page.
Pages == {None, Some("html")}

\* What a resolver returns: None, the empty string, or a code.
ResolverResults == {None, Some(<<>>), Some(<<"ref">>)}

SetIdle ==
  /\ cSet = ""
  /\ cSetName = <<>>
  /\ cSetType = ""
  /\ replaceSets = NoOverride
  /\ promoSets = {}
  /\ promo = FALSE
  /\ setCache = None
  /\ refCache = None
  /\ calls = <<>>

\* Card.__init__: _promo is False and nothing is cached.
SetInit ==
  /\ cSet \in SetCodes
  /\ cSetName \in SetNames
  /\ cSetType \in SetTypes
  /\ replaceSets \in ReplaceTables
  /\ promoSets \in PromoTables
  /\ promo = FALSE
  /\ setCache = None
  /\ refCache = None
  /\ calls = <<>>

\* The state of the card after evaluating self.mtgp_set, the probed page
\* being `page`: the value, the flag and the calls.
AfterMtgpSet(page) ==
  IF setCache # None
  THEN [set |-> setCache[1], promo |-> promo, calls |-> calls]
  ELSE LET r == MtgpSet(cSet, cSetName, cSetType, replaceSets, promoSets, page)
       IN [set |-> r.set,
           promo |-> IF r.promo THEN TRUE ELSE promo,
           calls |-> IF r.probed
                     THEN Append(calls, [fn |-> "get_mtgp_page",
                                         arg |-> <<Overridden(cSet, replaceSets), "001">>,
                                         out |-> page])
                     ELSE calls]

\* A first read of card.mtgp_set.
ReadMtgpSet ==
  /\ setCache = None
  /\ \E page \in Pages :
       LET s == AfterMtgpSet(page)
       IN /\ setCache' = Some(s.set)
          /\ promo' = s.promo
          /\ calls' = s.calls
  /\ UNCHANGED <<cSet, cSetName, cSetType, replaceSets, promoSets, refCache>>

\* A first read of card.mtgp_code: lines 118-127.  It reads self.mtgp_set
\* first; r1 and r2 are what the two resolvers return when called.
ReadMtgpCode ==
  /\ refCache = None
  /\ \E page \in Pages, r1 \in ResolverResults, r2 \in ResolverResults :
       LET s == AfterMtgpSet(page)
           pmoCall == [fn |-> "get_mtgp_code_pmo", arg |-> s.set, out |-> r1]
           stdCall == [fn |-> "get_mtgp_code", arg |-> s.set, out |-> r2]
       IN /\ setCache' = Some(s.set)
          /\ promo' = s.promo
          /\ IF UsePromo(s.set, s.promo) /\ Truthy(r1)
             THEN /\ refCache' = Some(r1[1])
                  /\ calls' = Append(s.calls, pmoCall)
             ELSE /\ refCache' = Some(IF Truthy(r2) THEN r2[1] ELSE NaiveCode(cSet, CardNumber))
                  /\ calls' = (IF UsePromo(s.set, s.promo)
                               THEN Append(s.calls, pmoCall) ELSE s.calls)
                              \o <<stdCall>>
  /\ UNCHANGED <<cSet, cSetName, cSetType, replaceSets, promoSets>>

(***************************************************************************)
(* Classification of a card record (card.py, get_card_class).              *)
(* The record c has an optional type line (a text), an optional list of    *)
(* keywords, an optional face list and an optional layout.  A class is     *)
(* named by its Python class name.                                         *)
(***************************************************************************)
\* Largest number of words of a type line.
MaxWords == 2

\* Largest number of times one record is classified.
MaxCalls == 2

\* class_map: lines 626-640.
ClassMap ==
  [l \in {"normal", "transform", "modal_dfc", "adventure", "leveler", "saga", "planar",
          "meld", "class", "split", "flip", "token", "reversible_card"} |->
     CASE l = "normal" -> "Card"
       [] l = "transform" -> "Transform"
       [] l = "modal_dfc" -> "MDFC"
       [] l = "adventure" -> "Adventure"
       [] l = "leveler" -> "Leveler"
       [] l = "saga" -> "Saga"
       [] l = "planar" -> "Planar"
       [] l = "meld" -> "Meld"
       [] l = "class" -> "Class"
       [] l = "split" -> "Split"
       [] l = "flip" -> "Flip"
       [] l = "token" -> "Token"
       [] l = "reversible_card" -> "Reversible"]

\* c.get(key, default) for an optional field: None when the key is absent.
GetOr(field, default) == IF field = None THEN default ELSE field[1]

\* class_map.get(c.get("layout", "normal"), Card): line 655.
ClassOfLayout(c) ==
  LET layout == GetOr(c.layout, "normal")
  IN IF layout \in DOMAIN ClassMap THEN ClassMap[layout] ELSE "Card"

\* A variant of get_card_class that tests the Mutate keyword first.
GetCardClassMutateFirst(c) ==
  LET type_line == GetOr(c.type_line, <<>>)
      keywords == GetOr(c.keywords, {})
  IN IF "Mutate" \in keywords THEN "Mutate"
     ELSE IF Contains(type_line, <<"Planeswalker">>) /\ ~c.card_faces THEN "Planeswalker"
     ELSE IF Contains(type_line, <<"Saga">>) /\ ~c.card_faces THEN "Saga"
     ELSE IF Contains(type_line, <<"Land">>) /\ ~c.card_faces
     THEN (IF Contains(type_line, <<"Basic", "Land">>) THEN "BasicLand" ELSE "Land")
     ELSE ClassOfLayout(c)

\* get_card_class(c): lines 642-655.  c.card_faces says whether the key
\* "card_faces" is in c.
GetCardClass(c) ==
  LET type_line == GetOr(c.type_line, <<>>)
      keywords == GetOr(c.keywords, {})
  IN IF Contains(type_line, <<"Planeswalker">>) /\ ~c.card_faces THEN "Planeswalker"
     ELSE IF Contains(type_line, <<"Saga">>) /\ ~c.card_faces THEN "Saga"
     ELSE IF "Mutate" \in keywords THEN "Mutate"
     ELSE IF Contains(type_line, <<"Land">>) /\ ~c.card_faces
     THEN (IF Contains(type_line, <<"Basic", "Land">>) THEN "BasicLand" ELSE "Land")
     ELSE ClassOfLayout(c)

VARIABLES
  \* get_card_class under test
  rec,          \* the record c
  classOut      \* the classes returned by the calls made so far

classVars == <<rec, classOut>>

TypeWords == {"Planeswalker", "Saga", "Basic", "Land", "Creature"}

\* The layouts of the records: those of class_map, one it does not know, and
\* none.
Layouts == {None, Some("augment")} \cup {Some(l) : l \in DOMAIN ClassMap}

Records ==
  [type_line : {None} \cup {Some(t) : t \in SeqsUpTo(TypeWords, MaxWords)},
   keywords : {None, Some({"Flying"}), Some({"Flying", "Mutate"})},
   card_faces : BOOLEAN,
   layout : Layouts]

ClassIdle ==
  /\ rec = [type_line |-> None, keywords |-> None, card_faces |-> FALSE, layout |-> None]
  /\ classOut = <<>>

ClassInit ==
  /\ rec \in Records
  /\ classOut = <<>>

\* One call get_card_class(rec).
CallGetCardClass ==
  /\ Len(classOut) < MaxCalls
  /\ classOut' = Append(classOut, GetCardClass(rec))
  /\ UNCHANGED rec

(***************************************************************************)
(* The download of one card (card.py, Card.download and MDFC.download).    *)
(* One call download(logging) runs as a sequence of steps, one per call    *)
(* out of the program: the scrape of the card's page, and each image       *)
(* fetch.  Every fetch is recorded in `net`, in order.  The state of a     *)
(* face follows the orchestrator's state machine: INIT, TRY_PRIMARY,       *)
(* DONE_PRIMARY, TRY_SECONDARY, DONE_SECONDARY, FAILED.                    *)
(***************************************************************************)
\* The classes whose download is MDFC.download: MDFC and its subclasses.
DualClasses == {"MDFC", "Split", "Transform", "Reversible"}

\* The classes that save under the front face's name (name_saved).
SavedNameClasses == {"Adventure", "Flip"}

\* The classes whose download is Card.download.
SingleClasses ==
  {"Card", "Adventure", "Leveler", "Saga", "Planar", "Meld", "Class", "Flip", "Token",
   "Planeswalker", "Mutate", "BasicLand", "Land"}

IsDual(card) == card.cls \in DualClasses

\* The number of faces download() processes: one, or len(self.scry_urls).
NFaces(card) == IF IsDual(card) THEN Len(card.card_faces) ELSE 1

\* str.upper() on a set code.
Upper(s) == IF s = "abc" THEN "ABC" ELSE s

\* The name of face i: self.name, self.name_back.
FaceName(card, i) == IF IsDual(card) THEN card.card_faces[i].name ELSE card.name

\* The artist of face i: self.artist, self.artist_back.
FaceArtist(card, i) == IF IsDual(card) THEN card.card_faces[i].artist ELSE card.artist

\* The name the file of face i is saved under.
FileName(card, i) ==
  IF card.cls \in SavedNameClasses THEN card.card_faces[1].name ELSE FaceName(card, i)

\* f"{name} ({self.set.upper()}) {self.number}"
LabelOf(card, name) == [name |-> name, set |-> Upper(card.set), number |-> card.number]

\* A variant of the labels that names the front face twice.
FaceLabelsFrontTwice(card) == [i \in 1..NFaces(card) |-> LabelOf(card, FaceName(card, 1))]

\* Card.label and MDFC.labels, as a list with one label per face.
FaceLabels(card) == [i \in 1..NFaces(card) |-> LabelOf(card, FaceName(card, i))]

\* Card.scry_url, MDFC.scry_urls, Split.scry_urls: "" when the record has no
\* image.
ScryUrls(card) ==
  [i \in 1..NFaces(card) |->
     IF card.cls = "Split" \/ ~IsDual(card) THEN card.image
     ELSE card.card_faces[i].image]

\* Card.check_path: the first of path, path (1), path (2), ... that is not a
\* file.  n = 0 is the path without counter.
\* A variant of check_path that probes once.
CheckPathOnce(path, files) ==
  IF path \in files THEN [path EXCEPT !.n = path.n + 1] ELSE path

RECURSIVE CheckPath(_, _)
CheckPath(path, files) ==
  IF path \in files THEN CheckPath([path EXCEPT !.n = path.n + 1], files)
  ELSE path

\* Card.generate_path: the file of this name and artist under the root
\* directory of an image source, numbered unless cfg.overwrite.
GeneratePath(root, name, artist, files, overwrite) ==
  LET path == [root |-> root, name |-> name, artist |-> artist, n |-> 0]
  IN IF overwrite THEN path ELSE CheckPath(path, files)

\* Card.mtgp_path / MDFC.mtgp_paths and Card.scry_path / MDFC.scry_paths:
\* the paths of all faces, computed together against the files present.
FacePaths(root, card, files, overwrite) ==
  [i \in 1..NFaces(card) |->
     GeneratePath(root, FileName(card, i), FaceArtist(card, i), files, overwrite)]

\* Card.mtgp_url and MDFC.mtgp_urls: the image URL of each face.  `page` is
\* the outcome of the page request: a network error, or the <img> entries
\* of the page.  Card.mtgp_url goes through get_mtgp_page, which returns
\* None on an error; MDFC.mtgp_urls calls requests.get, which raises.
MtgpUrls(card, page) ==
  IF ~IsDual(card)
  THEN IF page.error THEN Ret(<<None>>)
       ELSE LET front == GetCardFace(page.imgs, FALSE)
            IN IF front.exc # "" THEN Raise(front.exc) ELSE Ret(<<front.val>>)
  ELSE IF page.error THEN Raise("RequestException")
       ELSE LET front == GetCardFace(page.imgs, FALSE)
                rear == GetCardFace(page.imgs, TRUE)
            IN IF front.exc # "" THEN Raise(front.exc)
               ELSE IF rear.exc # "" THEN Raise(rear.exc)
               ELSE Ret(<<front.val, rear.val>>)

\* A variant of the fallback test that ignores the configuration.
FallbackAlways(cfgv) == TRUE

\* cfg.download_scryfall: lines 234 and 500.
FallbackWanted(cfgv) == cfgv.download_scryfall

\* A variant of log_failed that does not write the log file.
LogFailedNoWrite(out, label, print_out, action) ==
  [log |-> out.log,
   console |-> IF print_out
               THEN Append(out.console, [tag |-> action, label |-> label])
               ELSE out.console]

\* core.log_failed(label, print_out, action=...): out is the failure log and
\* the console before the call, the result is both after it.
LogFailed(out, label, print_out, action) ==
  [log |-> Append(out.log, label),
   console |-> IF print_out
               THEN Append(out.console, [tag |-> action, label |-> label])
               ELSE out.console]

\* log_mtgp / log_scryfall: one console line.
LogDone(out, label, tag) ==
  [log |-> out.log, console |-> Append(out.console, [tag |-> tag, label |-> label])]

VARIABLES
  cfgv,          \* cfg: [only_scryfall, download_scryfall, overwrite]
  card,          \* the card object's record
  logging,       \* the parameter of download()
  pc,            \* "idle", "running", "returned" or "raised"
  exc,           \* the exception download() raised, "" if none
  face,          \* the face being processed (the loop index i, from 1)
  faceState,     \* the state of each face
  urlCache,      \* cached mtgp_url(s): None, or <<urls>>
  mtgpPathCache, \* cached mtgp_path(s): None, or <<paths>>
  scryPathCache, \* cached scry_path(s): None, or <<paths>>
  files,         \* the image files on disk
  results,       \* the DownloadResults so far
  failedLog,     \* logs/failed.txt
  console,       \* the console lines
  net            \* the requests made so far

dlVars ==
  <<cfgv, card, logging, pc, exc, face, faceState, urlCache, mtgpPathCache,
    scryPathCache, files, results, failedLog, console, net>>

\* One face of a record: c["card_faces"][i].
FaceData(name, artist, image) == [name |-> name, artist |-> artist, image |-> image]

\* What image_uris gives: "" when the record has no image.
ImageUris == {"", "https://scryfall/art_crop.jpg"}

\* The back faces: another name, the front's name and artist again, or the
\* front's name by another artist.
BackFaces == {<<"Ice", "X">>, <<"Fire", "X">>, <<"Fire", "Y">>}

\* The records, each with the class get_card_class gave it.
Cards ==
  {[cls |-> cls, set |-> "abc", number |-> "7", name |-> "Fire", artist |-> "X",
    image |-> img, card_faces |-> <<>>] :
      cls \in SingleClasses \ SavedNameClasses, img \in ImageUris}
  \cup
  {[cls |-> cls, set |-> "abc", number |-> "7", name |-> "Fire // Ice", artist |-> "X",
    image |-> img,
    card_faces |-> <<FaceData("Fire", "X", img), FaceData("Ice", "X", img)>>] :
      cls \in SavedNameClasses, img \in ImageUris}
  \cup
  {[cls |-> cls, set |-> "abc", number |-> "7", name |-> "Fire // Ice", artist |-> "X",
    image |-> img,
    card_faces |-> <<FaceData("Fire", "X", img), FaceData(b[1], b[2], img)>>] :
      cls \in DualClasses, img \in ImageUris, b \in BackFaces}

\* The image codes of the pages scraped by download(): a 3-character code
\* and a shorter one.
PageCodes == {<<0, 0, 0>>, <<1>>}

\* The outcomes of the request for the card's page.
PageOutcomes ==
  {[error |-> TRUE, imgs |-> <<>>]}
  \cup
  {[error |-> FALSE, imgs |-> [i \in 1..Len(cs) |-> Entry(<<"pics", "art_th", "set">>, cs[i])]] :
     cs \in SeqsUpTo(PageCodes, MaxCands)}

\* The files on disk before the download.
InitialFiles ==
  {{}, {[root |-> "mtgp", name |-> "Fire", artist |-> "X", n |-> 0],
        [root |-> "scry", name |-> "Fire", artist |-> "X", n |-> 0]}}

DlIdle ==
  /\ cfgv = [only_scryfall |-> FALSE, download_scryfall |-> FALSE, overwrite |-> FALSE]
  /\ card = [cls |-> "Card", set |-> "", number |-> "", name |-> "", artist |-> "",
             image |-> "", card_faces |-> <<>>]
  /\ logging = TRUE
  /\ pc = "idle"
  /\ exc = ""
  /\ face = 1
  /\ faceState = <<"INIT">>
  /\ urlCache = None
  /\ mtgpPathCache = None
  /\ scryPathCache = None
  /\ files = {}
  /\ results = <<>>
  /\ failedLog = <<>>
  /\ console = <<>>
  /\ net = <<>>

\* A card object right after construction, under any configuration.
DlInit ==
  /\ cfgv \in [only_scryfall : BOOLEAN, download_scryfall : BOOLEAN, overwrite : BOOLEAN]
  /\ card \in Cards
  /\ logging = TRUE
  /\ pc = "idle"
  /\ exc = ""
  /\ face = 1
  /\ faceState = [i \in 1..NFaces(card) |-> "INIT"]
  /\ urlCache = None
  /\ mtgpPathCache = None
  /\ scryPathCache = None
  /\ files \in InitialFiles
  /\ results = <<>>
  /\ failedLog = <<>>
  /\ console = <<>>
  /\ net = <<>>

\* The loop moves to the next face, or download() returns after the last.
NextFaceOrReturn ==
  IF face = NFaces(card)
  THEN pc' = "returned" /\ face' = face
  ELSE pc' = pc /\ face' = face + 1

\* download(logging) is called.
Download ==
  /\ pc = "idle"
  /\ pc' = "running"
  /\ \E l \in BOOLEAN : logging' = l
  /\ UNCHANGED <<cfgv, card, exc, face, faceState, urlCache, mtgpPathCache,
                 scryPathCache, files, results, failedLog, console, net>>

\* The arguments of download_mtgp for the current face are evaluated: the
\* first read of mtgp_url(s) resolves the reference code and scrapes the
\* card's page (one "mtgp_page" event for the visit of the site) and may
\* raise, the first read of mtgp_path(s) probes the disk.  Lines 232 and
\* 495-497.
EvalMtgpArgs ==
  /\ pc = "running"
  /\ ~cfgv.only_scryfall
  /\ faceState[face] = "INIT"
  /\ IF urlCache # None
     THEN /\ faceState' = [faceState EXCEPT ![face] = "TRY_PRIMARY"]
          /\ UNCHANGED <<pc, exc, urlCache, mtgpPathCache, net>>
     ELSE \E page \in PageOutcomes :
            LET r == MtgpUrls(card, page)
            IN /\ net' = Append(net, [fn |-> "mtgp_page", face |-> face,
                                      path |-> None, ok |-> ~page.error])
               /\ IF r.exc # ""
                  THEN /\ pc' = "raised"
                       /\ exc' = r.exc
                       /\ UNCHANGED <<faceState, urlCache, mtgpPathCache>>
                  ELSE /\ urlCache' = Some(r.val)
                       /\ mtgpPathCache' = Some(FacePaths("mtgp", card, files, cfgv.overwrite))
                       /\ faceState' = [faceState EXCEPT ![face] = "TRY_PRIMARY"]
                       /\ UNCHANGED <<pc, exc>>
  /\ UNCHANGED <<cfgv, card, logging, face, scryPathCache, files, results, failedLog, console>>

\* download_mtgp(url, path, label) for the current face: lines 268-282, and
\* the success branch of lines 242 and 506.
DownloadMtgp ==
  /\ pc = "running"
  /\ faceState[face] = "TRY_PRIMARY"
  /\ \E ok \in BOOLEAN :
       LET url == urlCache[1][face]
           path == mtgpPathCache[1][face]
           label == FaceLabels(card)[face]
           success == url # None /\ ok
           out == LogDone([log |-> failedLog, console |-> console], label, "MTGP DONE")
       IN /\ net' = IF url # None
                    THEN Append(net, [fn |-> "get_mtgp_image", face |-> face,
                                      path |-> Some(path), ok |-> ok])
                    ELSE net
          /\ IF success
             THEN /\ files' = files \cup {path}
                  /\ console' = out.console
                  /\ faceState' = [faceState EXCEPT ![face] = "DONE_PRIMARY"]
                  /\ results' = Append(results, [success |-> TRUE, label |-> label, path |-> path])
                  /\ NextFaceOrReturn
             ELSE /\ faceState' = [faceState EXCEPT ![face] = "TRY_SECONDARY"]
                  /\ UNCHANGED <<files, console, results, pc, face>>
  /\ UNCHANGED <<cfgv, card, logging, exc, urlCache, mtgpPathCache, scryPathCache, failedLog>>

\* A variant of the reported success that counts the fallback's fetch.
ResultEitherSource(mtgp_result, scry_result) == mtgp_result \/ scry_result

\* The success reported for a face after download_mtgp and the fallback:
\* the literal False of line 241, `result` of line 506.
ResultAfterFallback(mtgp_result, scry_result) == mtgp_result

\* The paths self.scry_path / self.scry_paths evaluate to now.
ScryPathsNow ==
  IF scryPathCache # None THEN scryPathCache[1]
  ELSE FacePaths("scry", card, files, cfgv.overwrite)

\* After a failed download_mtgp: the fallback to Scryfall, the failure log
\* and the result of the face.  Lines 233-241 and 498-506.
Fallback ==
  /\ pc = "running"
  /\ faceState[face] = "TRY_SECONDARY"
  /\ \E ok \in BOOLEAN :
       LET url == ScryUrls(card)[face]
           label == FaceLabels(card)[face]
           wanted == FallbackWanted(cfgv)
           success == wanted /\ url # "" /\ ok
           out0 == [log |-> failedLog, console |-> console]
           out1 == IF success THEN LogDone(out0, label, "SCRYFALL") ELSE out0
           \* Card: `... and logging` guards the quiet log; MDFC: it does not
           quiet == IF IsDual(card) THEN success ELSE success /\ logging
           out2 == IF quiet THEN LogFailed(out1, label, FALSE, "MTGP FAILED")
                   ELSE IF logging THEN LogFailed(out1, label, TRUE, "MTGP FAILED")
                   ELSE out1
           \* Card returns self.scry_path, MDFC appends self.mtgp_paths[i]
           readsScryPath == wanted \/ ~IsDual(card)
       IN /\ net' = IF wanted /\ url # ""
                    THEN Append(net, [fn |-> "get_scryfall_image", face |-> face,
                                      path |-> Some(ScryPathsNow[face]), ok |-> ok])
                    ELSE net
          /\ scryPathCache' = IF readsScryPath THEN Some(ScryPathsNow) ELSE scryPathCache
          /\ files' = IF success THEN files \cup {ScryPathsNow[face]} ELSE files
          /\ failedLog' = out2.log
          /\ console' = out2.console
          /\ faceState' = [faceState EXCEPT ![face] = IF success THEN "DONE_SECONDARY" ELSE "FAILED"]
          /\ results' = Append(results,
                               [success |-> ResultAfterFallback(FALSE, success), label |-> label,
                                path |-> IF IsDual(card) THEN mtgpPathCache[1][face]
                                         ELSE ScryPathsNow[face]])
  /\ NextFaceOrReturn
  /\ UNCHANGED <<cfgv, card, logging, exc, urlCache, mtgpPathCache>>

\* The current face when cfg.only_scryfall is set: lines 225-229 and
\* 483-491.
ScryfallOnly ==
  /\ pc = "running"
  /\ cfgv.only_scryfall
  /\ faceState[face] = "INIT"
  /\ \E ok \in BOOLEAN :
       LET url == ScryUrls(card)[face]
           label == FaceLabels(card)[face]
           success == url # "" /\ ok
           out0 == [log |-> failedLog, console |-> console]
           out1 == IF success THEN LogDone(out0, label, "SCRYFALL") ELSE out0
           \* Card logs every failure; MDFC logs it `if not result and logging`
           logs == ~success /\ (~IsDual(card) \/ logging)
           out2 == IF logs THEN LogFailed(out1, label, TRUE, "SCRY FAILED") ELSE out1
       IN /\ net' = IF url # ""
                    THEN Append(net, [fn |-> "get_scryfall_image", face |-> face,
                                      path |-> Some(ScryPathsNow[face]), ok |-> ok])
                    ELSE net
          /\ scryPathCache' = Some(ScryPathsNow)
          /\ files' = IF success THEN files \cup {ScryPathsNow[face]} ELSE files
          /\ failedLog' = out2.log
          /\ console' = out2.console
          /\ faceState' = [faceState EXCEPT ![face] = IF success THEN "DONE_SECONDARY" ELSE "FAILED"]
          /\ results' = Append(results,
                               [success |-> success, label |-> label, path |-> ScryPathsNow[face]])
  /\ NextFaceOrReturn
  /\ UNCHANGED <<cfgv, card, logging, exc, urlCache, mtgpPathCache>>

(***************************************************************************)
(* The path template of a record (card.py, Card.get_template).             *)
(***************************************************************************)
MaxEffects == 2

\* template_effects, line 245.
TemplateEffects == {"enchantment", "miracle", "colorshifted", "extendedart", "etched", "snow"}

\* The elements of a list, as set(array) gives them.
SetOf(s) == {s[i] : i \in 1..Len(s)}

\* Card.find_first_match: next(iter(set(array1) & set(array2)), None).  The
\* iteration order of a set of strings follows their hashes, which change
\* from one run of the interpreter to another: every common element can be
\* the one returned.
FindFirstMatch(array1, array2) ==
  LET matches == SetOf(array1) \cap array2
  IN IF matches = {} THEN {None} ELSE {Some(m) : m \in matches}

\* Card.get_template: the templates the call can return for the record c.
GetTemplate(c) ==
  IF c.layout = "token" THEN {"token"}
  ELSE IF c.border_color = "borderless" THEN {"borderless"}
  ELSE IF c.frame \in {"1993", "1995"} THEN {"classic"}
  ELSE {IF r # None THEN r[1] ELSE "normal" : r \in FindFirstMatch(c.frame_effects, TemplateEffects)}

VARIABLES
  tplRec,   \* the record get_template reads
  tplOut    \* None before the call, <<template>> after it

tplVars == <<tplRec, tplOut>>

\* The frame-effect tags of the records: two of the template effects and
\* one that is not.
EffectTags == {"snow", "etched", "legendary"}

TemplateRecords ==
  [layout : {"token", "normal"}, border_color : {"borderless", "black"},
   frame : {"1993", "1995", "2015"}, frame_effects : SeqsUpTo(EffectTags, MaxEffects)]

TplIdle ==
  /\ tplRec = [layout |-> "normal", border_color |-> "black", frame |-> "2015",
               frame_effects |-> <<>>]
  /\ tplOut = None

TplInit ==
  /\ tplRec \in TemplateRecords
  /\ tplOut = None

\* self.get_template() is called, from __init__.
CallGetTemplate ==
  /\ tplOut = None
  /\ \E t \in GetTemplate(tplRec) : tplOut' = Some(t)
  /\ UNCHANGED tplRec

(***************************************************************************)
(* Successive requests for one intended file name (card.py,                *)
(* Card.generate_path and Card.check_path), with the files of that name    *)
(* on disk changing between the requests.                                  *)
(***************************************************************************)
MaxRequests == 3

MaxCounter == 2

\* The intended file and the file with counter n: `path (n).jpg`.
Numbered(n) == [root |-> "mtgp", name |-> "Fire", artist |-> "X", n |-> n]

VARIABLES
  pnOverwrite,  \* cfg.overwrite
  pnStart,      \* the files on disk before the first request
  pnFiles,      \* the files on disk
  pnLog         \* the requests so far: the path returned, the files probed

pnVars == <<pnOverwrite, pnStart, pnFiles, pnLog>>

PnIdle ==
  /\ pnOverwrite = FALSE
  /\ pnStart = {}
  /\ pnFiles = {}
  /\ pnLog = <<>>

PnInit ==
  /\ pnOverwrite \in BOOLEAN
  /\ pnStart \in SUBSET {Numbered(n) : n \in 0..MaxCounter}
  /\ pnFiles = pnStart
  /\ pnLog = <<>>

\* self.generate_path(path, name, artist) is called for the intended name.
RequestPath ==
  /\ Len(pnLog) < MaxRequests
  /\ pnLog' = Append(pnLog, [path |-> GeneratePath("mtgp", "Fire", "X", pnFiles, pnOverwrite),
                             probed |-> pnFiles])
  /\ UNCHANGED <<pnOverwrite, pnStart, pnFiles>>

\* An image is saved at the path the last request returned.
SaveImage ==
  /\ pnLog # <<>>
  /\ pnLog[Len(pnLog)].path \notin pnFiles
  /\ pnFiles' = pnFiles \cup {pnLog[Len(pnLog)].path}
  /\ UNCHANGED <<pnOverwrite, pnStart, pnLog>>

(***************************************************************************)
(* The archive pre-filter (core.py, filter_files_from_zip, is_card_in_zip  *)
(* and is_render_in_zip).  A record carries the fields these functions and *)
(* get_card_class read; a collector number is a sequence of characters; a  *)
(* file name "{render} [{SET}] {{number}}" is the record of its parts.     *)
(***************************************************************************)
MaxCards == 2

DigitChars == {"0", "1", "2", "3", "4", "5", "6", "7", "8", "9"}

DigitValue(ch) ==
  CASE ch = "0" -> 0 [] ch = "1" -> 1 [] ch = "2" -> 2 [] ch = "3" -> 3 [] ch = "4" -> 4
    [] ch = "5" -> 5 [] ch = "6" -> 6 [] ch = "7" -> 7 [] ch = "8" -> 8 [] ch = "9" -> 9

\* ''.join(char for char in card_number if char.isdigit())
DigitsOf(card_number) == SelectSeq(card_number, LAMBDA ch : ch \in DigitChars)

\* int(card_number_digits), for a non-empty string of digits.
RECURSIVE IntOf(_)
IntOf(digits) ==
  IF digits = <<>> THEN 0
  ELSE 10 * IntOf(SubSeq(digits, 1, Len(digits) - 1)) + DigitValue(digits[Len(digits)])

\* The record get_card_class reads.
ClassRecord(c) ==
  [type_line |-> c.type_line, keywords |-> c.keywords,
   card_faces |-> c.card_faces # None, layout |-> c.layout]

\* getattr(card_class(card), "name_saved", None) or card_class(card).name
SavedName(c) ==
  LET cls == GetCardClass(ClassRecord(c))
  IN IF cls \in SavedNameClasses \cup DualClasses THEN c.card_faces[1][1].name ELSE c.name

\* getattr(card_class(card), "name_back", None)
BackName(c) ==
  LET cls == GetCardClass(ClassRecord(c))
  IN IF cls \in DualClasses THEN Some(c.card_faces[1][2].name) ELSE None

\* is_render_in_zip(render, card, zip_file_basenames): lines 418-427.
IsRenderInZip(render, c, zip_file_basenames) ==
  LET constructed_name ==
        [render |-> render, set |-> Upper(c.set), number |-> IntOf(DigitsOf(c.collector_number))]
  IN constructed_name \in zip_file_basenames

\* The renders of a record: lines 412-414.
Renders(c) ==
  LET name_back == BackName(c)
  IN IF name_back # None /\ name_back[1] # "" /\ c.layout # Some("adventure")
     THEN <<SavedName(c), name_back[1]>>
     ELSE <<SavedName(c)>>

\* A variant of is_card_in_zip that asks for any render, not all.
IsCardInZipAny(c, zip_file_basenames) ==
  \E i \in 1..Len(Renders(c)) : IsRenderInZip(Renders(c)[i], c, zip_file_basenames)

\* is_card_in_zip(card, zip_file_basenames): lines 406-416.
IsCardInZip(c, zip_file_basenames) ==
  \A i \in 1..Len(Renders(c)) : IsRenderInZip(Renders(c)[i], c, zip_file_basenames)

\* os.path.splitext(os.path.basename(f))[0] for f in zip_file.namelist()
ZipBasenames(namelist) == {f.base : f \in namelist}

\* filter_files_from_zip(zip_path, cards): lines 389-404.  zip is None when
\* the archive does not exist, otherwise its list of entries.
FilterFilesFromZip(zip, cards) ==
  IF zip = None THEN Raise("FileNotFoundError")
  ELSE Ret(SelectSeq(cards, LAMBDA c : ~IsCardInZip(c, ZipBasenames(zip[1]))))

VARIABLES
  zipFile,    \* the archive at zip_path: None, or <<entries>>
  zipCards,   \* the list of records
  zipOut      \* None before the call, then <<what the call returned or raised>>

zipVars == <<zipFile, zipCards, zipOut>>

\* The records of the list: a single-face card, an adventure, and dual-face
\* cards with differently and equally named faces; two collector numbers.
ZipRecord(layout, name, faces, number) ==
  [type_line |-> Some(<<"Creature">>), keywords |-> None, layout |-> Some(layout),
   name |-> name, card_faces |-> faces, set |-> "abc", collector_number |-> number]

ZipNumbers == {<<"7">>, <<"1", "2", "a">>}

ZipRecords ==
  {ZipRecord("normal", "Fire", None, n) : n \in ZipNumbers}
  \cup
  {ZipRecord(l, "Fire // Ice", Some(<<[name |-> "Fire"], [name |-> "Ice"]>>), n) :
     l \in {"adventure", "transform", "split"}, n \in ZipNumbers}
  \cup
  {ZipRecord("reversible_card", "Fire // Fire", Some(<<[name |-> "Fire"], [name |-> "Fire"]>>), n) :
     n \in ZipNumbers}

\* The entries of the archives.
ZipEntries ==
  {[dir |-> "art", base |-> [render |-> r, set |-> "ABC", number |-> k], ext |-> ".jpg"] :
     r \in {"Fire", "Ice"}, k \in {7, 12}}

ZipIdle ==
  /\ zipFile = None
  /\ zipCards = <<>>
  /\ zipOut = None

ZipInit ==
  /\ zipFile \in {None} \cup {Some(z) : z \in SUBSET ZipEntries}
  /\ zipCards \in SeqsUpTo(ZipRecords, MaxCards)
  /\ zipOut = None

\* filter_files_from_zip(zip_path, cards) is called.
CallFilterFilesFromZip ==
  /\ zipOut = None
  /\ zipOut' = Some(FilterFilesFromZip(zipFile, zipCards))
  /\ UNCHANGED <<zipFile, zipCards>>

(***************************************************************************)
(* Specifications.  Each one exercises one component; the variables of    *)
(* the other components stay idle.                                        *)
(***************************************************************************)
vars == <<faceVars, codeVars, pmoVars, setVars, classVars, dlVars, tplVars, pnVars, zipVars>>

\* The download of one card, under every configuration.
otherVars == <<faceVars, codeVars, pmoVars, setVars, classVars, tplVars, pnVars, zipVars>>

Init == DlInit /\ FaceIdle /\ CodeIdle /\ PmoIdle /\ SetIdle /\ ClassIdle /\ TplIdle /\ PnIdle /\ ZipIdle

DownloadStep == Download /\ UNCHANGED otherVars

EvalMtgpArgsStep == EvalMtgpArgs /\ UNCHANGED otherVars

DownloadMtgpStep == DownloadMtgp /\ UNCHANGED otherVars

FallbackStep == Fallback /\ UNCHANGED otherVars

ScryfallOnlyStep == ScryfallOnly /\ UNCHANGED otherVars

Next ==
  \/ DownloadStep
  \/ EvalMtgpArgsStep
  \/ DownloadMtgpStep
  \/ FallbackStep
  \/ ScryfallOnlyStep

Spec == Init /\ [][Next]_vars

\* get_card_face on every candidate list.
InitFace == FaceInit /\ CodeIdle /\ PmoIdle /\ SetIdle /\ ClassIdle /\ DlIdle /\ TplIdle /\ PnIdle /\ ZipIdle

GetCardFaceStep == CallGetCardFace /\ UNCHANGED <<codeVars, pmoVars, setVars, classVars, dlVars, tplVars, pnVars, zipVars>>

NextFace == GetCardFaceStep

SpecFace == InitFace /\ [][NextFace]_vars

\* get_mtgp_code on every checklist.
InitCode == CodeInit /\ FaceIdle /\ PmoIdle /\ SetIdle /\ ClassIdle /\ DlIdle /\ TplIdle /\ PnIdle /\ ZipIdle

GetMtgpCodeStep == CallGetMtgpCode /\ UNCHANGED <<faceVars, pmoVars, setVars, classVars, dlVars, tplVars, pnVars, zipVars>>

NextCode == GetMtgpCodeStep

SpecCode == InitCode /\ [][NextCode]_vars

\* get_mtgp_code_pmo on every promo checklist.
InitPmo == PmoInit /\ FaceIdle /\ CodeIdle /\ SetIdle /\ ClassIdle /\ DlIdle /\ TplIdle /\ PnIdle /\ ZipIdle

GetMtgpCodePmoStep == CallGetMtgpCodePmo /\ UNCHANGED <<faceVars, codeVars, setVars, classVars, dlVars, tplVars, pnVars, zipVars>>

NextPmo == GetMtgpCodePmoStep

SpecPmo == InitPmo /\ [][NextPmo]_vars

\* One card object: its set mapping and its reference code.
InitSet == SetInit /\ FaceIdle /\ CodeIdle /\ PmoIdle /\ ClassIdle /\ DlIdle /\ TplIdle /\ PnIdle /\ ZipIdle

MtgpSetStep == ReadMtgpSet /\ UNCHANGED <<faceVars, codeVars, pmoVars, classVars, dlVars, tplVars, pnVars, zipVars>>

MtgpCodeStep == ReadMtgpCode /\ UNCHANGED <<faceVars, codeVars, pmoVars, classVars, dlVars, tplVars, pnVars, zipVars>>

NextSet == MtgpSetStep \/ MtgpCodeStep

SpecSet == InitSet /\ [][NextSet]_vars

\* get_card_class on every record.
InitClass == ClassInit /\ FaceIdle /\ CodeIdle /\ PmoIdle /\ SetIdle /\ DlIdle /\ TplIdle /\ PnIdle /\ ZipIdle

GetCardClassStep == CallGetCardClass /\ UNCHANGED <<faceVars, codeVars, pmoVars, setVars, dlVars, tplVars, pnVars, zipVars>>

NextClass == GetCardClassStep

SpecClass == InitClass /\ [][NextClass]_vars


\* The path template of one record.
InitTpl == TplInit /\ FaceIdle /\ CodeIdle /\ PmoIdle /\ SetIdle /\ ClassIdle /\ DlIdle /\ PnIdle /\ ZipIdle

GetTemplateStep == CallGetTemplate /\ UNCHANGED <<faceVars, codeVars, pmoVars, setVars, classVars, dlVars, pnVars, zipVars>>

NextTpl == GetTemplateStep

SpecTpl == InitTpl /\ [][NextTpl]_vars


\* Successive requests for one intended file name.
InitPath == PnInit /\ FaceIdle /\ CodeIdle /\ PmoIdle /\ SetIdle /\ ClassIdle /\ DlIdle /\ TplIdle /\ ZipIdle

RequestPathStep == RequestPath /\ UNCHANGED <<faceVars, codeVars, pmoVars, setVars, classVars, dlVars, tplVars, zipVars>>

SaveImageStep == SaveImage /\ UNCHANGED <<faceVars, codeVars, pmoVars, setVars, classVars, dlVars, tplVars, zipVars>>

NextPath == RequestPathStep \/ SaveImageStep

SpecPath == InitPath /\ [][NextPath]_vars


\* The archive pre-filter on one list of records.
InitZip == ZipInit /\ FaceIdle /\ CodeIdle /\ PmoIdle /\ SetIdle /\ ClassIdle /\ DlIdle /\ TplIdle /\ PnIdle

FilterFilesFromZipStep == CallFilterFilesFromZip /\ UNCHANGED <<faceVars, codeVars, pmoVars, setVars, classVars, dlVars, tplVars, pnVars>>

NextZip == FilterFilesFromZipStep

SpecZip == InitZip /\ [][NextZip]_vars

(***************************************************************************)
(* C1.  The order of the attempts for each face.                           *)
(***************************************************************************)
\* The requests of kind fn made for face f, as positions of net.
RequestsOf(fn, f) == {k \in 1..Len(net) : net[k].fn = fn /\ net[k].face = f}

\* The steps a face's state may take.
FaceTransitions ==
  {<<"INIT", "TRY_PRIMARY">>, <<"TRY_PRIMARY", "DONE_PRIMARY">>,
   <<"TRY_PRIMARY", "TRY_SECONDARY">>, <<"TRY_SECONDARY", "DONE_SECONDARY">>,
   <<"TRY_SECONDARY", "FAILED">>}

\* The steps a face's state takes when the run is restricted to Scryfall.
ScryfallOnlyTransitions == {<<"INIT", "DONE_SECONDARY">>, <<"INIT", "FAILED">>}

\* The request a step makes, if it makes one.
NewRequest == IF Len(net') = Len(net) + 1 THEN Some(net'[Len(net')]) ELSE None

\* C1: every step of download() moves a face along INIT -> TRY_PRIMARY ->
\* {DONE_PRIMARY | TRY_SECONDARY} -> {DONE_SECONDARY | FAILED} (straight from
\* INIT to the end when only-scryfall is set) and makes at most one request;
\* an MTGP image fetch is the first for its face, is made in TRY_PRIMARY and
\* never with only-scryfall set, and neither is the page scraped then; a
\* Scryfall image fetch is the first for its face and is made either with
\* only-scryfall set, or in TRY_SECONDARY, after the MTGP attempt of that
\* face failed, with the fallback flag enabled.
C1_AttemptOrder ==
  [][/\ \A f \in 1..Len(faceState) :
          faceState'[f] # faceState[f] =>
            /\ f = face
            /\ <<faceState[f], faceState'[f]>> \in
                 (IF cfgv.only_scryfall THEN ScryfallOnlyTransitions ELSE FaceTransitions)
     /\ Len(net') \in {Len(net), Len(net) + 1}
     /\ \A k \in 1..Len(net) : net'[k] = net[k]
     /\ NewRequest # None =>
          LET req == NewRequest[1]
          IN /\ req.face = face
             /\ req.fn \in {"mtgp_page", "get_mtgp_image"} => ~cfgv.only_scryfall
             /\ req.fn = "mtgp_page" => \A f \in 1..Len(faceState) : RequestsOf("mtgp_page", f) = {}
             /\ req.fn = "get_mtgp_image" =>
                  /\ RequestsOf("get_mtgp_image", face) = {}
                  /\ RequestsOf("get_scryfall_image", face) = {}
                  /\ faceState[face] = "TRY_PRIMARY"
             /\ req.fn = "get_scryfall_image" =>
                  /\ RequestsOf("get_scryfall_image", face) = {}
                  /\ \/ cfgv.only_scryfall
                     \/ /\ cfgv.download_scryfall
                        /\ faceState[face] = "TRY_SECONDARY"
                        /\ \A k \in RequestsOf("get_mtgp_image", face) : ~net[k].ok
                        /\ Cardinality(RequestsOf("get_mtgp_image", face)) <= 1
    ]_vars

\* A two-faced card was downloaded without only-scryfall: the MTGP fetch of
\* the front failed and its Scryfall fetch followed, the back came from MTGP.
C1_Witness ==
  /\ pc = "returned"
  /\ ~cfgv.only_scryfall
  /\ faceState = <<"DONE_SECONDARY", "DONE_PRIMARY">>
  /\ \E j \in RequestsOf("get_mtgp_image", 1), k \in RequestsOf("get_scryfall_image", 1) :
       j < k /\ ~net[j].ok /\ net[k].ok
  /\ RequestsOf("get_scryfall_image", 2) = {}

(***************************************************************************)
(* C2.  One result per face, in face order.                                *)
(***************************************************************************)
\* The label of face i of the record: the card's name for a single-face
\* variant, the name of face entry i for a dual-face one.
ExpectedLabel(i) ==
  [name |-> IF card.cls \in {"Transform", "MDFC", "Split", "Reversible"}
            THEN card.card_faces[i].name ELSE card.name,
   set |-> "ABC", number |-> card.number]

\* C2: when download() has returned, the results are one per face: one for
\* a single-face variant, two for a dual-face variant with two face entries,
\* the front face's label first and the back face's second, whatever the
\* fetches gave and whatever the flags.  (Calls that raise return nothing:
\* they are the subject of C4.)
C2_OneResultPerFace ==
  pc = "returned" =>
    /\ Len(results) = IF card.cls \in {"Transform", "MDFC", "Split", "Reversible"} THEN 2 ELSE 1
    /\ \A i \in 1..Len(results) : results[i].label = ExpectedLabel(i)

\* A dual-face card with differently named faces returned with a failed
\* front and a successful back.
C2_Witness ==
  /\ pc = "returned"
  /\ card.cls = "Transform"
  /\ card.card_faces[1].name # card.card_faces[2].name
  /\ Len(results) = 2
  /\ ~results[1].success
  /\ results[2].success

(***************************************************************************)
(* C3.  The failure log of the faces whose MTGP attempt failed.            *)
(***************************************************************************)
\* How many entries of the sequence s equal x.
CountOf(s, x) == Cardinality({k \in 1..Len(s) : s[k] = x})

\* The faces with label l whose state is in S.
FacesIn(l, S) == {f \in 1..Len(faceState) : ExpectedLabel(f) = l /\ faceState[f] \in S}

\* C3: with logging enabled and the run not restricted to Scryfall, the
\* failure log holds each label once for every face of that label whose MTGP
\* attempt failed (the face ended DONE_SECONDARY or FAILED) and nothing for
\* the others, and the console echoes the failure once for every such face
\* that ended FAILED and never for one that the fallback obtained.
C3_FailureLog ==
  (logging /\ ~cfgv.only_scryfall) =>
    /\ \A f \in 1..Len(faceState) :
         LET l == ExpectedLabel(f)
         IN /\ CountOf(failedLog, l) = Cardinality(FacesIn(l, {"DONE_SECONDARY", "FAILED"}))
            /\ CountOf(console, [tag |-> "MTGP FAILED", label |-> l])
                 = Cardinality(FacesIn(l, {"FAILED"}))
    /\ \A k \in 1..Len(failedLog) : \E f \in 1..Len(faceState) : failedLog[k] = ExpectedLabel(f)
    /\ \A k \in 1..Len(console) : console[k].tag # "SCRY FAILED"

\* With logging, a two-faced card returned: the front obtained from Scryfall
\* after its MTGP failure, logged quietly; the back failed, logged and echoed.
C3_Witness ==
  /\ pc = "returned"
  /\ logging
  /\ ~cfgv.only_scryfall
  /\ faceState = <<"DONE_SECONDARY", "FAILED">>
  /\ card.card_faces[1].name # card.card_faces[2].name
  /\ failedLog = <<ExpectedLabel(1), ExpectedLabel(2)>>
  /\ CountOf(console, [tag |-> "MTGP FAILED", label |-> ExpectedLabel(2)]) = 1
  /\ CountOf(console, [tag |-> "MTGP FAILED", label |-> ExpectedLabel(1)]) = 0

(***************************************************************************)
(* C4.  No failure escapes download().                                     *)
(***************************************************************************)
\* C4: download() never raises: whatever the page request and the image
\* fetches give, it ends by returning its results.
C4_NeverRaises == pc # "raised"

(***************************************************************************)
(* C5.  The selection rules of get_card_face by candidate count.           *)
(***************************************************************************)
\* The image codes of the entries, in page order.
EntryCodes == [i \in 1..Len(entries) |-> ImageCode(entries[i].src)]

\* x is the k-th smallest (k = 1, 2) of the codes at the positions I, in
\* lexicographic order, counting repeated codes.
IsKthCode(x, I, k) ==
  /\ \E i \in I : EntryCodes[i] = x
  /\ Cardinality({i \in I : LexLess(EntryCodes[i], x)}) < k
  /\ Cardinality({i \in I : ~LexLess(x, EntryCodes[i])}) >= k

\* The call returned the image of the k-th smallest code at the positions I.
ReturnsKth(I, k) ==
  /\ faceOut[1].exc = ""
  /\ faceOut[1].val # None
  /\ faceOut[1].val[1].file = ImageCode(faceOut[1].val[1]) \o <<Ext>>
  /\ IsKthCode(ImageCode(faceOut[1].val[1]), I, k)

\* C5: after get_card_face(entries, back): no candidate gives None for both
\* faces; one candidate gives its image for the front and None for the back;
\* two candidates give the lexicographically smaller code for the front and
\* the larger for the back whatever their order; more than two give the
\* first and second sorted 3-character codes when there are at least two,
\* otherwise the first and second sorted codes longer than 3 characters when
\* there are at least two of those.
C5_FaceSelection ==
  faceOut # None =>
    LET n == Len(entries)
        k == IF back THEN 2 ELSE 1
        I3 == {i \in 1..n : Len(EntryCodes[i]) = 3}
        I4 == {i \in 1..n : Len(EntryCodes[i]) > 3}
    IN /\ n = 0 => faceOut[1] = Ret(None)
       /\ (n = 1 /\ back) => faceOut[1] = Ret(None)
       /\ (n = 1 /\ ~back) =>
            faceOut[1] = Ret(Some(ImageUrl(ImageDir(entries[1].src), EntryCodes[1])))
       /\ n = 2 => ReturnsKth(1..n, k)
       /\ (n > 2 /\ Cardinality(I3) >= 2) => ReturnsKth(I3, k)
       /\ (n > 2 /\ Cardinality(I3) < 2 /\ Cardinality(I4) >= 2) => ReturnsKth(I4, k)

\* Three candidates out of order, two of them 3-character codes and one a
\* longer code, and the back face was asked for and returned.
C5_Witness ==
  /\ faceOut # None
  /\ back
  /\ Len(entries) = 3
  /\ Len(EntryCodes[1]) = 3 /\ Len(EntryCodes[2]) = 4 /\ Len(EntryCodes[3]) = 3
  /\ LexLess(EntryCodes[3], EntryCodes[1])
  /\ faceOut[1].val = Some(ImageUrl(ImageDir(entries[1].src), EntryCodes[1]))

(***************************************************************************)
(* C6.  Two passes of get_mtgp_code.                                       *)
(***************************************************************************)
\* The rows of the checklist whose name cell contains the name looked for.
NameRows ==
  {i \in 1..Len(checklist[1]) : Contains(checklist[1][i].text, argName)}

\* Those of them that also carry the collector number looked for.
BothRows == {i \in NameRows : checklist[1][i].num = argNum}

\* The call returned the code of the first row of I.
ReturnsFirstOf(I) ==
  \E i \in I :
    /\ \A j \in I : i <= j
    /\ codeOut[1] = Some(RefCode(checklist[1][i].href))

\* C6: when get_mtgp_code has read the checklist, a row that matches the
\* collector number and the name wins over any row that matches the name
\* only: the first row matching both is returned if there is one, else the
\* first row whose name cell contains the name, else None.
C6_NumberThenName ==
  (codeOut # None /\ setPage # None /\ setPage[1].setlink # None /\ checklist # None) =>
    /\ BothRows # {} => ReturnsFirstOf(BothRows)
    /\ (BothRows = {} /\ NameRows # {}) => ReturnsFirstOf(NameRows)
    /\ NameRows = {} => codeOut[1] = None

\* A name-only row comes before the row that matches number and name, and
\* the later row's code was returned.
C6_Witness ==
  /\ codeOut # None /\ setPage # None /\ setPage[1].setlink # None /\ checklist # None
  /\ \E i \in NameRows, j \in BothRows :
       /\ i < j
       /\ i \notin BothRows
       /\ \A k \in BothRows : j <= k
       /\ codeOut[1] = Some(RefCode(checklist[1][j].href))

(***************************************************************************)
(* C7.  The promotional resolution returns the best qualifying row.        *)
(***************************************************************************)
\* The rows of the promo checklist that qualify.
QualifyingRows ==
  {i \in 1..Len(pmoPage[1]) : Qualifies(pmoPage[1][i], pmoName, pmoArtist)}

\* C7: when get_mtgp_code_pmo has read the checklist, it returns the code of
\* a qualifying row whose score no qualifying row exceeds and no earlier
\* qualifying row equals, and None if no row qualifies.
C7_BestPromoRow ==
  (pmoOut # None /\ pmoPage # None) =>
    /\ QualifyingRows = {} => pmoOut[1] = None
    /\ QualifyingRows # {} =>
         \E i \in QualifyingRows :
           /\ pmoOut[1] = Some(RefCode(pmoPage[1][i].href))
           /\ \A j \in QualifyingRows :
                /\ pmoPage[1][j].score <= pmoPage[1][i].score
                /\ j < i => pmoPage[1][j].score < pmoPage[1][i].score

\* Three qualifying rows, the last two sharing the highest score, and the
\* second row's code was returned.
C7_Witness ==
  /\ pmoOut # None /\ pmoPage # None
  /\ QualifyingRows = {1, 2, 3}
  /\ pmoPage[1][1].score < pmoPage[1][2].score
  /\ pmoPage[1][2].score = pmoPage[1][3].score
  /\ pmoOut[1] = Some(RefCode(pmoPage[1][2].href))

(***************************************************************************)
(* C8.  The order in which Card.mtgp_code chooses the reference code.      *)
(***************************************************************************)
\* The results of the calls to the resolver fn, in order.
ResultsOf(fn) ==
  LET cs == SelectSeq(calls, LAMBDA c : c.fn = fn)
  IN [i \in 1..Len(cs) |-> cs[i].out]

\* The set codes the resolver fn was called with, in order.
ArgsOf(fn) ==
  LET cs == SelectSeq(calls, LAMBDA c : c.fn = fn)
  IN [i \in 1..Len(cs) |-> cs[i].arg]

\* C8: the promotional resolver is called only for a record whose set
\* mapping has been computed and is promotional, and then once; once the
\* reference code is computed it is the promotional resolver's code when the
\* mapping is promotional and that resolver yields a code, otherwise the code
\* of the non-promotional resolver, called for the mapped set, when it yields
\* one, otherwise the canonical set code followed by the collector number.
C8_ReferenceCodeOrder ==
  LET pmo == ResultsOf("get_mtgp_code_pmo")
      std == ResultsOf("get_mtgp_code")
  IN /\ Len(pmo) <= 1
     /\ Len(pmo) = 1 => (setCache # None /\ promo)
     /\ refCache # None =>
          /\ promo <=> Len(pmo) = 1
          /\ ArgsOf("get_mtgp_code_pmo") \o ArgsOf("get_mtgp_code") \in SeqsUpTo({setCache[1]}, 2)
          /\ IF promo /\ Truthy(pmo[1])
             THEN refCache[1] = pmo[1][1] /\ Len(std) = 0
             ELSE /\ Len(std) = 1
                  /\ IF Truthy(std[1])
                     THEN refCache[1] = std[1][1]
                     ELSE refCache[1] = <<cSet, CardNumber>>

\* A promotional record with an overridden set for which neither resolver
\* yielded a code: the reference code is the naive code of the canonical set.
C8_Witness ==
  /\ refCache # None
  /\ promo
  /\ setCache[1] # cSet
  /\ Len(ResultsOf("get_mtgp_code_pmo")) = 1
  /\ ~Truthy(ResultsOf("get_mtgp_code_pmo")[1])
  /\ ResultsOf("get_mtgp_code") = <<None>>
  /\ refCache[1] = <<cSet, CardNumber>>

(***************************************************************************)
(* C9.  The order of the checks of Card.mtgp_set.                          *)
(***************************************************************************)
\* The canonical set code after the override table.
MappedCode == IF cSet \in DOMAIN replaceSets THEN replaceSets[cSet] ELSE cSet

RulePromoTable == MappedCode \in promoSets

RuleAlchemy == Contains(cSetName, <<"Alchemy">>)

RuleJudge == Contains(cSetName, <<"Judge", "Gift">>) \/ MappedCode = "dci"

RuleChampionship ==
  cSetName = <<"Legacy", "Championship">> \/ cSetName = <<"Vintage", "Championship">>

RuleProbe == cSetType = "funny" \/ cSetType = "promo"

\* The page probes made so far.
Probes == SelectSeq(calls, LAMBDA c : c.fn = "get_mtgp_page")

\* The mapping came out as this code with this promotional flag, without a
\* probe.
MappedTo(code, isPromo) ==
  setCache[1] = code /\ promo = isPromo /\ Len(Probes) = 0

\* C9: once the set mapping is computed, the first rule that matches, in
\* the order override table, promotional table, Alchemy, Judge Gift or dci,
\* Championship, funny or promo set type, decides the code and the
\* promotional flag; the page {code}001 is probed, once, only under the set
\* type rule when no earlier rule matched, and never before the mapping.
C9_SetMappingOrder ==
  /\ setCache = None => (Len(Probes) = 0 /\ ~promo)
  /\ setCache # None =>
       /\ RulePromoTable => MappedTo(MappedCode, TRUE)
       /\ (~RulePromoTable /\ RuleAlchemy) => MappedTo("a22", TRUE)
       /\ (~RulePromoTable /\ ~RuleAlchemy /\ RuleJudge) => MappedTo("dci", TRUE)
       /\ (~RulePromoTable /\ ~RuleAlchemy /\ ~RuleJudge /\ RuleChampionship) =>
            MappedTo("uni", TRUE)
       /\ (~RulePromoTable /\ ~RuleAlchemy /\ ~RuleJudge /\ ~RuleChampionship /\ RuleProbe) =>
            /\ Len(Probes) = 1
            /\ Probes[1].arg = <<MappedCode, "001">>
            /\ Probes[1].out # None => (setCache[1] = MappedCode /\ ~promo)
            /\ Probes[1].out = None => (setCache[1] = "pmo" /\ promo)
       /\ (~RulePromoTable /\ ~RuleAlchemy /\ ~RuleJudge /\ ~RuleChampionship /\ ~RuleProbe) =>
            MappedTo(MappedCode, FALSE)

\* A promo-type set whose name matches the Alchemy rule and the Judge Gift
\* rule and whose overridden code is not in the promotional table: it maps
\* to "a22" without a probe.
C9_Witness ==
  /\ setCache = Some("a22")
  /\ promo
  /\ cSet \in DOMAIN replaceSets
  /\ ~RulePromoTable /\ RuleAlchemy /\ RuleJudge /\ RuleProbe
  /\ Len(Probes) = 0

(***************************************************************************)
(* C10.  The priority order of get_card_class.                             *)
(***************************************************************************)
\* The type line of the record ("" when absent) contains these words.
TypeLineHas(words) == rec.type_line # None /\ Contains(rec.type_line[1], words)

IsPlaneswalker == TypeLineHas(<<"Planeswalker">>) /\ ~rec.card_faces

IsSaga == TypeLineHas(<<"Saga">>) /\ ~rec.card_faces

IsMutate == rec.keywords # None /\ "Mutate" \in rec.keywords[1]

IsLand == TypeLineHas(<<"Land">>) /\ ~rec.card_faces

\* The class the declared layout dispatches to.
LayoutClass ==
  IF rec.layout = None THEN "Card"
  ELSE IF rec.layout[1] \in DOMAIN ClassMap THEN ClassMap[rec.layout[1]]
  ELSE "Card"

\* C10: every call of get_card_class on a record returns the same class, the
\* one of the first rule that matches: Planeswalker type line without face
\* list, Saga type line without face list, Mutate keyword, Land type line
\* without face list (BasicLand for "Basic Land"), else the class of the
\* declared layout, Card for an unknown or missing one.  A record with a face
\* list is never classified by its type line.
C10_ClassificationOrder ==
  \A k \in 1..Len(classOut) :
    LET cls == classOut[k]
    IN /\ cls = classOut[1]
       /\ IsPlaneswalker => cls = "Planeswalker"
       /\ (~IsPlaneswalker /\ IsSaga) => cls = "Saga"
       /\ (~IsPlaneswalker /\ ~IsSaga /\ IsMutate) => cls = "Mutate"
       /\ (~IsPlaneswalker /\ ~IsSaga /\ ~IsMutate /\ IsLand) =>
            cls = (IF TypeLineHas(<<"Basic", "Land">>) THEN "BasicLand" ELSE "Land")
       /\ (~IsPlaneswalker /\ ~IsSaga /\ ~IsMutate /\ ~IsLand) => cls = LayoutClass
       /\ rec.card_faces => (cls = "Mutate" \/ cls = LayoutClass)
       /\ cls \in {"Planeswalker", "Saga", "Mutate", "BasicLand", "Land"}
                    \cup {ClassMap[l] : l \in DOMAIN ClassMap}

\* A transform record without face list whose type line names a Saga and a
\* Land and whose keywords include Mutate, classified twice as Saga.
C10_Witness ==
  /\ Len(classOut) = 2
  /\ rec.layout = Some("transform")
  /\ ~IsPlaneswalker /\ IsSaga /\ IsMutate /\ IsLand
  /\ classOut = <<"Saga", "Saga">>

(***************************************************************************)
(* C11.  The path template of a record.                                    *)
(***************************************************************************)
\* The first tag of the list that is one of the template effects, "normal"
\* when there is none.
FirstEffect(effects) ==
  LET I == {i \in 1..Len(effects) : effects[i] \in
              {"enchantment", "miracle", "colorshifted", "extendedart", "etched", "snow"}}
  IN IF I = {} THEN "normal" ELSE effects[CHOOSE i \in I : \A j \in I : i <= j]

\* C11: the template is a function of the record: "token" for a token
\* layout, else "borderless" for a borderless border, else "classic" for
\* frame 1993 or 1995, else the first frame-effect tag of the record, in the
\* record's order, that is a template effect, else "normal".
C11_TemplateOrder ==
  tplOut # None =>
    tplOut[1] = IF tplRec.layout = "token" THEN "token"
                ELSE IF tplRec.border_color = "borderless" THEN "borderless"
                ELSE IF tplRec.frame \in {"1993", "1995"} THEN "classic"
                ELSE FirstEffect(tplRec.frame_effects)

(***************************************************************************)
(* C12.  Path collision avoidance.                                         *)
(***************************************************************************)
\* The intended name with counter n (0: without counter).
Intended(n) == [root |-> "mtgp", name |-> "Fire", artist |-> "X", n |-> n]

\* Every path returned before request k had been saved when the next
\* request probed the disk.
SavedBetween(k) == \A j \in 2..k : pnLog[j - 1].path \in pnLog[j].probed

\* C12, as the code has it: with overwrite off, each returned path is the
\* intended name if it is free at the time of the probe, otherwise the name
\* with the smallest positive counter that is free then; when only the
\* intended name exists at the start and each returned path is saved before
\* the next request, the requests return (1), (2), ... in turn.  With
\* overwrite on, the intended name is returned whatever is on disk.
C12_CollisionAvoidance ==
  \A k \in 1..Len(pnLog) :
    LET p == pnLog[k].path
    IN /\ \E n \in 0..(MaxCounter + MaxRequests + 1) : p = Intended(n)
       /\ pnOverwrite => p = Intended(0)
       /\ ~pnOverwrite =>
            /\ p \notin pnLog[k].probed
            /\ \A m \in 0..(p.n - 1) : Intended(m) \in pnLog[k].probed
            /\ (pnStart = {Intended(0)} /\ SavedBetween(k)) => p = Intended(k)

\* Only the intended name existed; two requests, the first path saved in
\* between, returned (1) and then (2).
C12_Witness ==
  /\ ~pnOverwrite
  /\ pnStart = {Intended(0)}
  /\ Len(pnLog) >= 2
  /\ SavedBetween(2)
  /\ pnLog[1].path = Intended(1)
  /\ pnLog[2].path = Intended(2)

\* C12 as stated: with overwrite off and a file at the intended name,
\* successive requests for that name return strictly increasing counters,
\* starting at (1).
C12_SuccessiveIncrease ==
  (~pnOverwrite /\ Intended(0) \in pnStart) =>
    \A k \in 1..Len(pnLog) :
      /\ pnLog[k].path.n >= 1
      /\ k > 1 => pnLog[k].path.n > pnLog[k - 1].path.n

(***************************************************************************)
(* C13.  The archive pre-filter.                                           *)
(***************************************************************************)
\* The collector numbers of the records, as integers.
NumberAsInteger(number) == IF number = <<"7">> THEN 7 ELSE 12

\* The names of the required faces of a record: front and back for the
\* dual-face layouts, the front alone otherwise.
RequiredFaces(c) ==
  IF c.layout \in {Some("transform"), Some("modal_dfc"), Some("split"), Some("reversible_card")}
  THEN {c.card_faces[1][1].name, c.card_faces[1][2].name}
  ELSE IF c.layout \in {Some("adventure"), Some("flip")} THEN {c.card_faces[1][1].name}
  ELSE {c.name}

\* Every required face of record c has its expected file name among the
\* entry basenames of the archive.
AllFacesArchived(c) ==
  \A r \in RequiredFaces(c) :
    \E f \in zipFile[1] :
      f.base = [render |-> r, set |-> "ABC", number |-> NumberAsInteger(c.collector_number)]

\* The positions of the records that are not wholly in the archive.
KeptPositions == {i \in 1..Len(zipCards) : ~AllFacesArchived(zipCards[i])}

\* C13: filter_files_from_zip on an existing archive returns the records of
\* the list that have a required face missing from the archive, in their
\* input order: a record is removed if and only if every required face is
\* there.
C13_ArchiveFilter ==
  (zipOut # None /\ zipFile # None) =>
    /\ zipOut[1].exc = ""
    /\ Len(zipOut[1].val) = Cardinality(KeptPositions)
    /\ \A j \in 1..Len(zipOut[1].val) :
         \E i \in KeptPositions :
           /\ Cardinality({k \in KeptPositions : k <= i}) = j
           /\ zipOut[1].val[j] = zipCards[i]

\* A dual-face record with only its front in the archive was kept, and the
\* single-face record after it, in the archive, was removed.
C13_Witness ==
  /\ zipOut # None
  /\ zipFile # None
  /\ Len(zipCards) = 2
  /\ zipCards[1].layout = Some("transform")
  /\ zipCards[2].layout = Some("normal")
  /\ \E f \in zipFile[1] : f.base.render = "Fire" /\ f.base.number = 7
  /\ \A f \in zipFile[1] : f.base.render # "Ice"
  /\ zipCards[1].collector_number = <<"7">>
  /\ zipCards[2].collector_number = <<"7">>
  /\ zipOut[1].val = <<zipCards[1]>>

(***************************************************************************)
(* C14.  download(logging=False) logs no failure.                          *)
(***************************************************************************)
\* C14: when download() was called with logging=False, the failure log
\* stays empty and no failure is echoed to the console, for every class of
\* card, every configuration and every outcome of the fetches.
C14_LoggingOff ==
  ~logging =>
    /\ failedLog = <<>>
    /\ \A k \in 1..Len(console) : console[k].tag \notin {"MTGP FAILED", "SCRY FAILED"}

(***************************************************************************)
(* C15.  get_card_face on the degenerate mixed case.                       *)
(***************************************************************************)
\* The image codes of the candidate list with exactly 3 characters, and
\* those with more.
ThreeCharCodes == {i \in 1..Len(entries) : Len(ImageCode(entries[i].src)) = 3}

LongerCodes == {i \in 1..Len(entries) : Len(ImageCode(entries[i].src)) > 3}

\* C15: with more than 2 candidates of which fewer than two have a
\* 3-character code and fewer than two a longer one, get_card_face returns
\* without failing, and the front image is a code of a partition list that
\* is not empty.
C15_DegenerateCase ==
  (faceOut # None /\ Len(entries) > 2
     /\ Cardinality(ThreeCharCodes) < 2 /\ Cardinality(LongerCodes) < 2) =>
    /\ faceOut[1].exc = ""
    /\ ~back =>
         /\ faceOut[1].val # None
         /\ \E i \in ThreeCharCodes \cup LongerCodes :
              ImageCode(faceOut[1].val[1]) = ImageCode(entries[i].src)

(***************************************************************************)
(* C16.  No image is written over an existing file.                        *)
(***************************************************************************)
\* C16: with the overwrite flag off, every image fetch of download() that
\* succeeds writes to a path at which no file exists at the time of the
\* write: neither a file that was there before the call nor the image of
\* another face written earlier in the call.
C16_NoOverwrite ==
  [][(~cfgv.overwrite /\ NewRequest # None) =>
       LET req == NewRequest[1]
       IN (req.fn \in {"get_mtgp_image", "get_scryfall_image"} /\ req.ok) =>
            req.path[1] \notin files
    ]_vars

(***************************************************************************)
(* C17.  The success flag and the path of a DownloadResult.                *)
(***************************************************************************)
\* The fetch of the first source attempted for a face.
FirstSource == IF cfgv.only_scryfall THEN "get_scryfall_image" ELSE "get_mtgp_image"

\* C17: in every result of download(), success is true if and only if the
\* fetch from the first source attempted for that face (MTGP, or Scryfall
\* under only-scryfall) succeeded, and then the result's path is the path
\* that fetch wrote; a face obtained from the Scryfall fallback after an
\* MTGP failure is reported with success false.
C17_SuccessMeansFirstSource ==
  \A i \in 1..Len(results) :
    /\ results[i].success <=>
         \E k \in 1..Len(net) : net[k].fn = FirstSource /\ net[k].face = i /\ net[k].ok
    /\ results[i].success =>
         \A k \in 1..Len(net) :
           (net[k].face = i /\ net[k].fn \in {"get_mtgp_image", "get_scryfall_image"} /\ net[k].ok)
             => net[k].path = <<results[i].path>>
    /\ (~cfgv.only_scryfall /\ faceState[i] = "DONE_SECONDARY") => ~results[i].success

\* A two-faced card returned: the front from the Scryfall fallback, reported
\* as a failure; the back from MTGP, reported as a success at the path
\* written.
C17_Witness ==
  /\ pc = "returned"
  /\ ~cfgv.only_scryfall
  /\ faceState = <<"DONE_SECONDARY", "DONE_PRIMARY">>
  /\ Len(results) = 2
  /\ ~results[1].success
  /\ results[2].success
  /\ \E k \in 1..Len(net) :
       net[k].fn = "get_mtgp_image" /\ net[k].face = 2 /\ net[k].ok
         /\ net[k].path = <<results[2].path>>

=============================================================================
